---- MODULE Spec2Model ----
(***************************************************************************)
(* A model of arctic-spa-dc: the wire-frame codec (packet.py,              *)
(* bytebuffer.py), the protocol decoder and the two client sessions        *)
(* (client.py: the blocking client, arctic_spa_client.py: the asyncio      *)
(* client).                                                                *)
(*                                                                         *)
(* Bytes are integers 0..255 and byte strings are sequences of them.       *)
(* TLC's integers are 32 bits wide, so a Python integer that may leave     *)
(* that range (a CRC-32, a sequence number) is written as a pair           *)
(* <<hi, lo>> standing for hi * 65536 + lo, with lo in 0..65535.           *)
(***************************************************************************)
EXTENDS Integers, Sequences, FiniteSets, TLC

VARIABLES
    run,        \* the clients that take steps in this behaviour
    rejects,    \* the payloads the protobuf parser refuses (ParseFromString raises)
    host,       \* self.host of each client ("" when not set)
    conn,       \* self._conn / self._writer: "none", "open", "closing" (set, closed
                \* or closing), or "lost" (set, closed by the peer, not closing)
    leaked,     \* transports the client opened, no longer holds and never closed
    sockTimeout,\* whether the blocking socket carries a timeout (create_connection's)
    pc,         \* where each client is: "idle", "connect", "poll_check", "poll_read"
    attempts,   \* connect's attempts argument
    attempt,    \* connect's loop counter
    want,       \* poll_messages: the requested types
    got,        \* poll_messages: requested_messages, type -> message or None
    timed,      \* poll_messages: whether a timeout was given
    expired,    \* poll_messages: whether the timeout has elapsed
    io,         \* the transport events of the current or last call, in order
    last,       \* the current or last call: its name, arguments, result
    prevRead,   \* when last is a read_messages call: the read_messages call before it
    cdata,      \* SpecCodec: the bytes handed to decode_one or decode
    cout,       \* SpecCodec: the operation applied and what it returned or raised
    search,     \* NetworkSearch.search: where the call is, max_workers, found
    probes      \* udp_probe of each host: position, socket, datagrams, result

sessVars == <<host, conn, leaked, sockTimeout, pc, attempts, attempt,
              want, got, timed, expired, io, last, prevRead>>
codecVars == <<cdata, cout>>
netVars == <<search, probes>>
vars == <<run, rejects, sessVars, codecVars, netVars>>

(***************************************************************************)
(* Bounds of the model.                                                    *)
(***************************************************************************)
MaxAttempts == 2    \* connect is called with attempts in 0..MaxAttempts
MaxOpens == 3       \* open attempts followed within one connect call
MaxLeaked == 2      \* leaked transports counted per client
MaxReads == 2       \* reads followed within one poll_messages call

(***************************************************************************)
(* Bytes and fixed-width integers (struct.pack / struct.unpack).           *)
(***************************************************************************)
Min(a, b) == IF a < b THEN a ELSE b

Wide(v) == <<v \div 65536, v % 65536>>

U16Bytes(v) == <<v \div 256, v % 256>>

U16At(data, i) == data[i] * 256 + data[i + 1]

U32At(data, i) == <<U16At(data, i), U16At(data, i + 2)>>

Bit(a, i) == (a \div (2 ^ i)) % 2

\* a ^ b of two bytes
Xor8(a, b) ==
    ((Bit(a, 0) + Bit(b, 0)) % 2) + 2 * ((Bit(a, 1) + Bit(b, 1)) % 2)
    + 4 * ((Bit(a, 2) + Bit(b, 2)) % 2) + 8 * ((Bit(a, 3) + Bit(b, 3)) % 2)
    + 16 * ((Bit(a, 4) + Bit(b, 4)) % 2) + 32 * ((Bit(a, 5) + Bit(b, 5)) % 2)
    + 64 * ((Bit(a, 6) + Bit(b, 6)) % 2) + 128 * ((Bit(a, 7) + Bit(b, 7)) % 2)

\* a ^ b of two 16-bit halves
Xor(a, b) == 256 * Xor8(a \div 256, b \div 256) + Xor8(a % 256, b % 256)

\* struct.pack('>h', v) accepts a signed 16-bit integer, else struct.error
ShortOk(v) == v >= -32768 /\ v <= 32767

PackShort(v) == U16Bytes(v % 65536)

\* struct.pack('>i', w) accepts a signed 32-bit integer, else struct.error
IntOk(w) == w[1] >= -32768 /\ w[1] <= 32767

PackInt(w) == U16Bytes(w[1] % 65536) \o U16Bytes(w[2])

\* struct.pack('>I', w) accepts an unsigned 32-bit integer, else struct.error
UIntOk(w) == w[1] >= 0 /\ w[1] <= 65535

PackUInt(w) == U16Bytes(w[1]) \o U16Bytes(w[2])

(***************************************************************************)
(* zlib.crc32: the reflected CRC-32 with polynomial 0xEDB88320, on a pair  *)
(* of 16-bit halves.                                                       *)
(***************************************************************************)
CrcShift(c) ==
    LET hi == c[1] \div 2
        lo == (c[2] \div 2) + (c[1] % 2) * 32768
    IN  IF c[2] % 2 = 1 THEN <<Xor(hi, 60856), Xor(lo, 33568)>> ELSE <<hi, lo>>

U32 == (0..65535) \X (0..65535)

CrcBits[c \in U32, n \in 0..8] == IF n = 0 THEN c ELSE CrcBits[CrcShift(c), n - 1]

\* the 256-entry table of zlib's crc32: entry n is n shifted through 8 bits
CrcTable == [n \in 0..255 |-> CrcBits[<<0, n>>, 8]]

\* one byte: crc = table[(crc ^ byte) & 0xFF] ^ (crc >> 8)
CrcByte(c, byte) ==
    LET t == CrcTable[Xor(c[2] % 256, byte)]
    IN  <<Xor(c[1] \div 256, t[1]), Xor((c[2] \div 256) + (c[1] % 256) * 256, t[2])>>

\* zlib.crc32(data): all ones in, every byte through the table, inverted out
Crc32(data) ==
    LET CrcBytes[c \in U32, i \in 1..(Len(data) + 1)] ==
            IF i > Len(data) THEN c ELSE CrcBytes[CrcByte(c, data[i]), i + 1]
        c == CrcBytes[<<65535, 65535>>, 1]
    IN  <<Xor(c[1], 65535), Xor(c[2], 65535)>>

(***************************************************************************)
(* ByteBuffer: an io.BytesIO stream (its bytes and its position); ok is    *)
(* FALSE once a put has raised struct.error.                               *)
(***************************************************************************)
Allocate == [data |-> <<>>, pos |-> 0, ok |-> TRUE]

Zeros(n) == [i \in 1..n |-> 0]

\* BytesIO.write at the current position: overwrites, extends (a gap after
\* the end is filled with zero bytes), advances
StreamWrite(buf, bytes) ==
    LET end == buf.pos + Len(bytes)
        head == IF buf.pos <= Len(buf.data) THEN SubSeq(buf.data, 1, buf.pos)
                ELSE buf.data \o Zeros(buf.pos - Len(buf.data))
    IN  [data |-> head \o bytes \o SubSeq(buf.data, end + 1, Len(buf.data)),
         pos |-> end,
         ok |-> TRUE]

PutShort(buf, v) ==
    IF ~buf.ok \/ ~ShortOk(v) THEN [buf EXCEPT !.ok = FALSE]
    ELSE StreamWrite(buf, PackShort(v))

PutInt(buf, w) ==
    IF ~buf.ok \/ ~IntOk(w) THEN [buf EXCEPT !.ok = FALSE]
    ELSE StreamWrite(buf, PackInt(w))

PutBytes(buf, bytes) ==
    IF ~buf.ok THEN buf ELSE StreamWrite(buf, bytes)

PutIntAtCurrent(buf, index, w) ==
    IF ~buf.ok THEN buf
    ELSE IF ~UIntOk(w) THEN [buf EXCEPT !.ok = FALSE]
    ELSE StreamWrite(buf, PackUInt(w))

PutIntAtMoving(buf, index, w) ==
    IF ~buf.ok THEN buf
    ELSE IF ~UIntOk(w) THEN [buf EXCEPT !.ok = FALSE, !.pos = index]
    ELSE StreamWrite([buf EXCEPT !.pos = index], PackUInt(w))

\* put_int_at: seek(index), write, seek back; struct.pack raises after the
\* first seek, which leaves the position at index
PutIntAt(buf, index, w) ==
    IF ~buf.ok THEN buf
    ELSE IF ~UIntOk(w) THEN [buf EXCEPT !.ok = FALSE, !.pos = index]
    ELSE [StreamWrite([buf EXCEPT !.pos = index], PackUInt(w)) EXCEPT !.pos = buf.pos]

\* put_short_at: as put_int_at, with a signed 16-bit pack
PutShortAt(buf, index, v) ==
    IF ~buf.ok THEN buf
    ELSE IF ~ShortOk(v) THEN [buf EXCEPT !.ok = FALSE, !.pos = index]
    ELSE [StreamWrite([buf EXCEPT !.pos = index], PackShort(v)) EXCEPT !.pos = buf.pos]

\* flip: seek(0); mode is assigned and never read
Flip(buf) == [buf EXCEPT !.pos = 0]

\* stream.read(n): the bytes from the position on, at most n, and the
\* position moved past them
StreamRead(buf, n) ==
    LET bytes == SubSeq(buf.data, buf.pos + 1, Min(buf.pos + n, Len(buf.data)))
    IN  [bytes |-> bytes, buf |-> [buf EXCEPT !.pos = @ + Len(bytes)]]

\* struct.unpack('>i', bytes) and struct.unpack('>h', bytes)
UnpackInt(bytes) ==
    <<IF U16At(bytes, 1) >= 32768 THEN U16At(bytes, 1) - 65536 ELSE U16At(bytes, 1),
      U16At(bytes, 3)>>

UnpackShort(bytes) ==
    IF U16At(bytes, 1) >= 32768 THEN U16At(bytes, 1) - 65536 ELSE U16At(bytes, 1)

\* get_int and get_short: unpack raises struct.error on fewer bytes
GetInt(buf) ==
    LET read == StreamRead(buf, 4)
    IN  IF Len(read.bytes) < 4 THEN [ok |-> FALSE, buf |-> read.buf]
        ELSE [ok |-> TRUE, value |-> UnpackInt(read.bytes), buf |-> read.buf]

GetShort(buf) ==
    LET read == StreamRead(buf, 2)
    IN  IF Len(read.bytes) < 2 THEN [ok |-> FALSE, buf |-> read.buf]
        ELSE [ok |-> TRUE, value |-> UnpackShort(read.bytes), buf |-> read.buf]

(***************************************************************************)
(* Packet.serialize, for a packet of the given type, sequence number and   *)
(* payload (Packet.__init__ sets size to len(payload)): the bytes, or      *)
(* ok = FALSE when a put raises struct.error.                              *)
(***************************************************************************)
Magic == Wide(-1414718150)

\* Packet(packet_type, payload)
NewPacket(packet_type, payload) ==
    [sequence_number |-> Wide(0), optional |-> Wide(0), type |-> packet_type,
     size |-> Len(payload), payload |-> payload, checksum |-> Wide(0)]

\* packet.serialize(): the bytes, or ok = FALSE when a put raises struct.error
PacketSerialize(packet) ==
    LET b1 == PutInt(Allocate, Magic)
        b2 == PutInt(b1, Wide(0))
        b3 == PutInt(b2, packet.sequence_number)
        b4 == PutInt(b3, packet.optional)
        b5 == PutShort(b4, packet.type)
        b6 == PutShort(b5, packet.size)
        b7 == PutBytes(b6, packet.payload)
        b8 == IF b7.ok THEN PutIntAt(b7, 4, Crc32(b7.data)) ELSE b7
    IN  [ok |-> b8.ok, bytes |-> b8.data]

\* the packet after serialize returned `done`: self.checksum holds the CRC,
\* which is what header bytes 4..8 hold
PacketAfter(packet, done) ==
    IF done.ok THEN [packet EXCEPT !.checksum = U32At(done.bytes, 5)] ELSE packet

Serialize(type, seq, payload) ==
    PacketSerialize([NewPacket(type, payload) EXCEPT !.sequence_number = seq])

(***************************************************************************)
(* MessageType and the decoders each client registers                      *)
(* (Message.MESSAGE_TYPE_DECODERS).                                        *)
(***************************************************************************)
LIVE == 0
COMMAND == 1
SETTINGS == 2
FIRMWARE == 8
HEARTBEAT == 10

MessageTypes ==
    (0..10) \cup {13, 16} \cup (48..50) \cup (80..85) \cup (112..125)
    \cup {127, 144} \cup (194..196)

Clients == {"blocking", "async"}

Decoders(k) ==
    IF k = "blocking"
    THEN (0..7) \cup {9, 13, 16, 48, 50, 80, 82, 84, 85} \cup (112..124)
    ELSE {0, 2, 3, 6, 48}

(***************************************************************************)
(* ArcticSpaProtocol / SpaProtocol: decode_one and decode.                 *)
(***************************************************************************)
HEADER_SIZE == 20

PREAMBLE == <<171, 173, 29, 58>>

NoMessage == [none |-> TRUE]

Raise(err, why) == [k |-> "raise", err |-> err, why |-> why]

\* data[a:b] of Python, a and b counted from 0
Slice(data, a, b) == SubSeq(data, a + 1, Min(b, Len(data)))

\* Message(message_type, counter, checksum, payload): ParseFromString may raise
NewMessage(type, counter, checksum, payload) ==
    [message_type |-> type, counter |-> counter, checksum |-> checksum,
     payload |-> payload]

YieldsIfRegistered(decoders, type) == type \in decoders

\* whether a frame of the type yields a message: never a heartbeat, and only
\* a type that is a key of Message.MESSAGE_TYPE_DECODERS
Yields(decoders, type) == type # HEARTBEAT /\ type \in decoders

WrongPreambleOrChecksum(data) ==
    \/ Slice(data, 0, 4) # PREAMBLE
    \/ U32At(data, 5)
         # Crc32([i \in 1..Len(data) |-> IF i \in 5..8 THEN 0 ELSE data[i]])

\* data[0:4] != PREAMBLE, the one test decode_one makes on the header bytes
WrongPreamble(data) == Slice(data, 0, 4) # PREAMBLE

\* decode_one when Message.MESSAGE_TYPE_DECODERS has the keys `decoders`
DecodeOneWith(decoders, bad, data) ==
    IF Len(data) < HEADER_SIZE THEN Raise("DecodeError", "short")
    ELSE IF WrongPreamble(data) THEN Raise("DecodeError", "preamble")
    ELSE
        LET type == U16At(data, 17)
            length == U16At(data, 19)
            payload == Slice(data, HEADER_SIZE, HEADER_SIZE + length)
            checksum == Slice(data, 4, 8)
            counter == U32At(data, 9)
            remainder == Slice(data, HEADER_SIZE + length, Len(data))
        IN  IF type \notin MessageTypes THEN Raise("ValueError", "MessageType")
            ELSE IF Yields(decoders, type)
            THEN IF payload \in bad THEN Raise("protobuf.DecodeError", "parse")
                 ELSE [k |-> "ok",
                       message |-> NewMessage(type, counter, checksum, payload),
                       remainder |-> remainder]
            ELSE [k |-> "ok", message |-> NoMessage, remainder |-> remainder]

DecodeOne(k, bad, data) == DecodeOneWith(Decoders(k), bad, data)

RECURSIVE DecodeLoop(_, _, _, _)
DecodeLoop(k, bad, messages, to_decode) ==
    IF Len(to_decode) = 0 THEN [k |-> "list", msgs |-> messages]
    ELSE LET one == DecodeOne(k, bad, to_decode)
         IN  IF one.k = "raise" THEN one
             ELSE DecodeLoop(k, bad, Append(messages, one.message), one.remainder)

\* a variant of Decode that stops after the first frame
DecodeFirstOnly(k, bad, data) ==
    IF Len(data) = 0 THEN [k |-> "list", msgs |-> <<>>]
    ELSE LET one == DecodeOne(k, bad, data)
         IN  IF one.k = "raise" THEN one ELSE [k |-> "list", msgs |-> <<one.message>>]

\* the messages of the frames before the first one decode_one refuses
RECURSIVE DecodedBeforeError(_, _, _, _)
DecodedBeforeError(k, bad, messages, to_decode) ==
    IF Len(to_decode) = 0 THEN messages
    ELSE LET one == DecodeOne(k, bad, to_decode)
         IN  IF one.k = "raise" THEN messages
             ELSE DecodedBeforeError(k, bad, Append(messages, one.message), one.remainder)

\* a variant of Decode that returns what it has when a frame is refused
DecodePartial(k, bad, data) ==
    [k |-> "list", msgs |-> DecodedBeforeError(k, bad, <<>>, data)]

Decode(k, bad, data) == DecodeLoop(k, bad, <<>>, data)

(***************************************************************************)
(* What the environment hands to a session: hosts, frames as a device      *)
(* sends them, and the chunks one read of the transport can return (whole  *)
(* frames, two frames at once, the two parts of a frame cut in its header  *)
(* or in its payload, and the empty read of a closed stream).              *)
(***************************************************************************)
Hosts == {"", "spa"}

\* the host addresses of the scanned network
ScanHosts == {"10.0.0.1", "10.0.0.2"}

Frame(type, counter, payload) == Serialize(type, Wide(counter), payload).bytes

Live1 == Frame(LIVE, 1, <<7>>)

Live2 == Frame(LIVE, 2, <<>>)

Settings1 == Frame(SETTINGS, 1, <<7, 8>>)

Heartbeat1 == Frame(HEARTBEAT, 0, <<>>)

Cuts == {10, 21}

Chunks ==
    {<<>>, Live1, Live2, Settings1, Heartbeat1, Live1 \o Live2}
    \cup {SubSeq(Settings1, 1, c) : c \in Cuts}
    \cup {SubSeq(Settings1, c + 1, Len(Settings1)) : c \in Cuts}

PollTypes == {LIVE, SETTINGS}

RejectChoices == {{}, {<<7>>}}

(***************************************************************************)
(* Results of a call: what it returned, or the exception it raised.        *)
(***************************************************************************)
RetNone == [k |-> "none"]

RetBool(b) == [k |-> "bool", b |-> b]

RetBytes(data) == [k |-> "bytes", data |-> data]

RetMap(map) == [k |-> "map", map |-> map]

\* the result of a call that has not returned yet
Pending == [k |-> "pending"]

NoPrev == [none |-> TRUE]

Event(e, what) == [e |-> e, what |-> what]

EventsOf(k, e) == SelectSeq(io[k], LAMBDA ev : ev.e = e)

\* the outcomes of the open attempts of the current or last call, in order
Opens(k) == [i \in 1..Len(EventsOf(k, "open")) |-> EventsOf(k, "open")[i].what]

\* the chunks read during the current or last call, in order
Reads(k) == [i \in 1..Len(EventsOf(k, "read")) |-> EventsOf(k, "read")[i].what]

\* a call that takes more than one step begins: no result yet
Begin(k, call) ==
    /\ last' = [last EXCEPT ![k] = [ret |-> Pending] @@ call]
    /\ prevRead' = [prevRead EXCEPT ![k] = NoPrev]

\* a call ends: its result is kept and its local variables are gone; of the
\* call before it, what a read_messages call read and returned is kept when
\* this call is a read_messages call too
Done(k, call, ret) ==
    /\ pc' = [pc EXCEPT ![k] = "idle"]
    /\ last' = [last EXCEPT ![k] = [ret |-> ret] @@ call]
    /\ prevRead' = [prevRead EXCEPT ![k] =
            IF call.op = "read_messages" /\ last[k].op = "read_messages"
               /\ Len(Reads(k)) = 1
            THEN [data |-> Reads(k)[1], ret |-> last[k].ret]
            ELSE NoPrev]
    /\ attempts' = [attempts EXCEPT ![k] = 0]
    /\ attempt' = [attempt EXCEPT ![k] = 0]
    /\ want' = [want EXCEPT ![k] = {}]
    /\ got' = [got EXCEPT ![k] = <<>>]
    /\ timed' = [timed EXCEPT ![k] = FALSE]
    /\ expired' = [expired EXCEPT ![k] = FALSE]

(***************************************************************************)
(* ArcticSpaClient: is_connected, disconnect, connect.                     *)
(***************************************************************************)
IsConnected(k) ==
    IF k = "blocking" THEN conn[k] # "none" ELSE conn[k] \in {"open", "lost"}

\* disconnect().  Blocking: shutdown and close, any exception swallowed,
\* _conn = None (a socket that is dropped unclosed is closed by its
\* finalizer).  Async: writer.close(), then wait_closed(), which raises when
\* fails is true: the exception leaves the call and _writer stays set.
Disconnected(k, fails) ==
    IF conn[k] = "none"
    THEN [conn |-> "none", events |-> <<>>, raised |-> FALSE]
    ELSE IF k = "blocking"
    THEN [conn |-> "none", events |-> <<Event("close", "")>>, raised |-> FALSE]
    ELSE [conn |-> IF fails THEN "closing" ELSE "none",
          events |-> <<Event("close", "")>>,
          raised |-> fails]

ConnectCallWith(k, hostArgs, attemptArgs, failArgs) ==
    /\ pc[k] = "idle"
    /\ \E h \in hostArgs, n \in attemptArgs, timeout \in BOOLEAN, fails \in failArgs :
        LET d == Disconnected(k, fails)
            newHost == IF h # "" THEN h ELSE host[k]
            call == [op |-> "connect", attempts |-> n]
        IN  /\ (k = "blocking" \/ conn[k] = "none") => ~fails
            /\ k = "async" => ~timeout
            /\ conn' = [conn EXCEPT ![k] = d.conn]
            /\ io' = [io EXCEPT ![k] = d.events]
            /\ IF d.raised
               THEN /\ Done(k, call, Raise("OSError", "wait_closed"))
                    /\ UNCHANGED <<host, sockTimeout>>
               ELSE /\ host' = [host EXCEPT ![k] = newHost]
                    /\ IF newHost = ""
                       THEN /\ Done(k, call, Raise("ValueError", "host"))
                            /\ sockTimeout' = [sockTimeout EXCEPT ![k] = FALSE]
                       ELSE /\ pc' = [pc EXCEPT ![k] = "connect"]
                            /\ attempts' = [attempts EXCEPT ![k] = n]
                            /\ attempt' = [attempt EXCEPT ![k] = 0]
                            /\ sockTimeout' = [sockTimeout EXCEPT ![k] = timeout]
                            /\ Begin(k, call)
                            /\ UNCHANGED <<want, got, timed, expired>>
    /\ UNCHANGED <<run, rejects, leaked, codecVars, netVars>>

ConnectCall(k) == ConnectCallWith(k, Hosts, 0..MaxAttempts, BOOLEAN)

\* whether a successful attempt leaves the attempt loop (break)
BreaksOnSuccess(k) == k = "blocking"

\* one pass of the attempt loop: the transport opens, times out or is refused
ConnectAttempt(k) ==
    /\ pc[k] = "connect"
    /\ attempt[k] < attempts[k]
    /\ Len(Opens(k)) < MaxOpens
    /\ \E outcome \in {"ok", "timeout", "refused"} :
        LET call == [op |-> "connect", attempts |-> attempts[k]]
        IN  /\ io' = [io EXCEPT ![k] = Append(@, Event("open", outcome))]
            /\ CASE outcome = "ok" ->
                    /\ conn[k] \in {"open", "lost"} => leaked[k] < MaxLeaked
                    /\ leaked' = [leaked EXCEPT ![k] =
                                    IF conn[k] \in {"open", "lost"} THEN @ + 1 ELSE @]
                    /\ conn' = [conn EXCEPT ![k] = "open"]
                    /\ UNCHANGED sockTimeout
                    /\ IF BreaksOnSuccess(k)
                       THEN Done(k, call, RetBool(IsConnected(k)'))
                       ELSE UNCHANGED <<pc, attempts, attempt, last, prevRead,
                                        want, got, timed, expired>>
                 [] outcome = "timeout" ->
                    /\ attempt' = [attempt EXCEPT ![k] = @ + 1]
                    /\ UNCHANGED <<conn, leaked, sockTimeout, pc, attempts, last,
                                   prevRead, want, got, timed, expired>>
                 [] outcome = "refused" ->
                    /\ Done(k, call, RetBool(FALSE))
                    /\ sockTimeout' = [sockTimeout EXCEPT ![k] =
                                         IF conn[k] = "none" THEN FALSE ELSE @]
                    /\ UNCHANGED <<conn, leaked>>
    /\ UNCHANGED <<run, rejects, host, codecVars, netVars>>

\* the attempt loop ends with attempt = attempts: return self.is_connected()
ConnectReturn(k) ==
    /\ pc[k] = "connect"
    /\ attempt[k] >= attempts[k]
    /\ sockTimeout' = [sockTimeout EXCEPT ![k] = IF conn[k] = "none" THEN FALSE ELSE @]
    /\ UNCHANGED <<run, rejects, host, conn, leaked, io, codecVars, netVars>>
    /\ Done(k, [op |-> "connect", attempts |-> attempts[k]], RetBool(IsConnected(k)))

DisconnectCall(k) ==
    /\ pc[k] = "idle"
    /\ \E fails \in BOOLEAN :
        LET d == Disconnected(k, fails)
        IN  /\ (k = "blocking" \/ conn[k] = "none") => ~fails
            /\ conn' = [conn EXCEPT ![k] = d.conn]
            /\ io' = [io EXCEPT ![k] = d.events]
            /\ Done(k, [op |-> "disconnect"],
                    IF d.raised THEN Raise("OSError", "wait_closed") ELSE RetNone)
    /\ sockTimeout' = [sockTimeout EXCEPT ![k] = FALSE]
    /\ UNCHANGED <<run, rejects, host, leaked, codecVars, netVars>>

\* what the client's reference becomes when the peer closes the transport.
\* A socket object does not change.  An asyncio transport stays open for
\* writing after an orderly end of stream and is closing after a reset.
AfterPeerClose(k) == IF k = "blocking" THEN {"lost"} ELSE {"lost", "closing"}

\* the peer closes the open transport, or the connection is lost
PeerClose(k) ==
    /\ conn[k] = "open"
    /\ \E c \in AfterPeerClose(k) : conn' = [conn EXCEPT ![k] = c]
    /\ UNCHANGED <<run, rejects, host, leaked, sockTimeout, pc, attempts, attempt,
                   want, got, timed, expired, io, last, prevRead, codecVars, netVars>>

(***************************************************************************)
(* write_requested_messages, read_raw_stream_data, read_messages.          *)
(***************************************************************************)
\* the orders in which a set of types can be iterated
Orders(types) ==
    {o \in [1..Cardinality(types) -> types] :
        \A i, j \in 1..Cardinality(types) : o[i] = o[j] => i = j}

\* _get_message_type_packet_bytes: Packet(message_type.value, bytearray()).serialize()
PacketBytes(type) == Serialize(type, Wide(0), <<>>).bytes

\* the packet of each type a caller of the model requests
RequestPackets == [type \in PollTypes |-> PacketBytes(type)]

\* command_packet_bytes += packet bytes, for each type in iteration order
RECURSIVE CommandBytes(_, _)
CommandBytes(order, i) ==
    IF i > Len(order) THEN <<>>
    ELSE RequestPackets[order[i]] \o CommandBytes(order, i + 1)

\* what recv / reader.read can do: return a chunk, or (a blocking socket that
\* carries a timeout) raise socket.timeout, which is TimeoutError
RecvOutcomes(k) ==
    {RetBytes(data) : data \in Chunks}
    \cup (IF k = "blocking" /\ sockTimeout[k] THEN {Raise("TimeoutError", "recv")} ELSE {})

\* the longest list or tuple a caller of the model passes
MaxList == 3

\* message_types: one MessageType, a list or tuple (which may repeat a type),
\* or a set
RequestArgs ==
    {[shape |-> "one", item |-> t] : t \in PollTypes}
    \cup {[shape |-> "list", items |-> l] :
            l \in UNION {[1..n -> PollTypes] : n \in 0..MaxList}}
    \cup {[shape |-> "set", items |-> u] : u \in SUBSET PollTypes}

\* the elements of a list
Elements(items) == {items[i] : i \in DOMAIN items}

IterationsOfList(message_types) ==
    IF message_types.shape = "one" THEN {<<message_types.item>>}
    ELSE IF message_types.shape = "list" THEN {message_types.items}
    ELSE Orders(message_types.items)

\* the sequences `for message_type in message_types` can go through: a single
\* type becomes a list of one, a list or tuple becomes a set
Iterations(message_types) ==
    IF message_types.shape = "one" THEN {<<message_types.item>>}
    ELSE IF message_types.shape = "list" THEN Orders(Elements(message_types.items))
    ELSE Orders(message_types.items)

WriteRequestedCall(k) ==
    /\ pc[k] = "idle"
    /\ \E message_types \in RequestArgs :
        LET call == [op |-> "write_requested_messages", arg |-> message_types]
        IN  IF ~IsConnected(k)
            THEN /\ io' = [io EXCEPT ![k] = <<>>]
                 /\ Done(k, call, Raise("ConnectionError", "closed"))
            ELSE \E order \in Iterations(message_types) :
                 /\ io' = [io EXCEPT ![k] = <<Event("write", CommandBytes(order, 1))>>]
                 /\ Done(k, call, RetNone)
    /\ UNCHANGED <<run, rejects, host, conn, leaked, sockTimeout, codecVars, netVars>>

\* the blocking client checks the connection (assert_connected); the async
\* client reads self._reader, which is None when there is no connection
ReadRawCall(k) ==
    /\ pc[k] = "idle"
    /\ LET call == [op |-> "read_raw_stream_data"]
       IN  IF k = "blocking" /\ ~IsConnected(k)
           THEN /\ io' = [io EXCEPT ![k] = <<>>]
                /\ Done(k, call, Raise("ConnectionError", "closed"))
           ELSE IF k = "async" /\ conn[k] = "none"
           THEN /\ io' = [io EXCEPT ![k] = <<>>]
                /\ Done(k, call, Raise("AttributeError", "NoneType"))
           ELSE \E r \in RecvOutcomes(k) :
                /\ io' = [io EXCEPT ![k] =
                            IF r.k = "bytes" THEN <<Event("read", r.data)>> ELSE <<>>]
                /\ Done(k, call, r)
    /\ UNCHANGED <<run, rejects, host, conn, leaked, sockTimeout, codecVars, netVars>>

\* read_messages: one read, then decode of exactly the bytes of that read
ReadMessages(k, r) == IF r.k = "bytes" THEN Decode(k, rejects, r.data) ELSE r

ReadMessagesCall(k) ==
    /\ pc[k] = "idle"
    /\ LET call == [op |-> "read_messages"]
       IN  IF ~IsConnected(k)
           THEN /\ io' = [io EXCEPT ![k] = <<>>]
                /\ Done(k, call, Raise("ConnectionError", "closed"))
           ELSE \E r \in RecvOutcomes(k) :
                /\ io' = [io EXCEPT ![k] =
                            IF r.k = "bytes" THEN <<Event("read", r.data)>> ELSE <<>>]
                /\ Done(k, call, ReadMessages(k, r))
    /\ UNCHANGED <<run, rejects, host, conn, leaked, sockTimeout, codecVars, netVars>>

(***************************************************************************)
(* poll_messages and _poll_messages.                                       *)
(***************************************************************************)
\* a variant of Put that keeps the message a type already has
PutFirst(map, key, val) ==
    [t \in DOMAIN map \cup {key} |->
        IF t \in DOMAIN map /\ map[t] # NoMessage THEN map[t]
        ELSE IF t = key THEN val ELSE map[t]]

\* requested_messages[message.message_type] = message
Put(map, key, val) ==
    [t \in DOMAIN map \cup {key} |-> IF t = key THEN val ELSE map[t]]

\* for message in messages: if message: requested_messages[type] = message
RECURSIVE Collect(_, _, _)
Collect(map, msgs, i) ==
    IF i > Len(msgs) THEN map
    ELSE Collect(IF msgs[i] = NoMessage THEN map
                 ELSE Put(map, msgs[i].message_type, msgs[i]),
                 msgs, i + 1)

\* a variant of Missing with the test inverted
MissingInverted(map) == ~(\E t \in DOMAIN map : map[t] = NoMessage)

\* missing_messages = None in requested_messages.values()
Missing(map) == \E t \in DOMAIN map : map[t] = NoMessage

\* the blocking loop looks at the clock at the top of each pass; the async
\* call runs the loop under asyncio.wait_for
PollLoop(k) == IF k = "blocking" THEN "poll_check" ELSE "poll_read"

PollCallOf(k) == [op |-> "poll_messages", types |-> want[k], timed |-> timed[k]]

EntersLoopIfMissing(map) == Missing(map)

\* missing_messages = True before the while statement: the first pass of the
\* loop is made whatever requested_messages holds
EntersLoop(map) == TRUE

PollCall(k) ==
    /\ pc[k] = "idle"
    /\ \E types \in SUBSET PollTypes, timeout \in BOOLEAN :
        IF ~IsConnected(k)
        THEN /\ io' = [io EXCEPT ![k] = <<>>]
             /\ Done(k, [op |-> "poll_messages", types |-> types, timed |-> timeout],
                     Raise("ConnectionError", "closed"))
        ELSE \E order \in Orders(types) :
             /\ io' = [io EXCEPT ![k] = <<Event("write", CommandBytes(order, 1))>>]
             /\ IF EntersLoop([t \in types |-> NoMessage])
                THEN /\ want' = [want EXCEPT ![k] = types]
                     /\ got' = [got EXCEPT ![k] = [t \in types |-> NoMessage]]
                     /\ timed' = [timed EXCEPT ![k] = timeout]
                     /\ expired' = [expired EXCEPT ![k] = FALSE]
                     /\ pc' = [pc EXCEPT ![k] = PollLoop(k)]
                     /\ Begin(k, [op |-> "poll_messages", types |-> types,
                                  timed |-> timeout])
                     /\ UNCHANGED <<attempts, attempt>>
                ELSE Done(k, [op |-> "poll_messages", types |-> types,
                              timed |-> timeout],
                          RetMap([t \in types |-> NoMessage]))
    /\ UNCHANGED <<run, rejects, host, conn, leaked, sockTimeout, codecVars, netVars>>

\* the clock passes the deadline of the poll
Tick(k) ==
    /\ pc[k] \in {"poll_check", "poll_read"}
    /\ timed[k]
    /\ ~expired[k]
    /\ expired' = [expired EXCEPT ![k] = TRUE]
    /\ UNCHANGED <<run, rejects, host, conn, leaked, sockTimeout, pc, attempts,
                   attempt, want, got, timed, io, last, prevRead, codecVars, netVars>>

\* blocking: if timeout and (time.time() - start) > timeout: raise TimeoutError
PollCheck(k) ==
    /\ pc[k] = "poll_check"
    /\ UNCHANGED io
    /\ IF timed[k] /\ expired[k]
       THEN Done(k, PollCallOf(k), Raise("TimeoutError", "poll"))
       ELSE /\ pc' = [pc EXCEPT ![k] = "poll_read"]
            /\ UNCHANGED <<last, prevRead, attempts, attempt, want, got, timed,
                           expired>>
    /\ UNCHANGED <<run, rejects, host, conn, leaked, sockTimeout, codecVars, netVars>>

\* whether the read of the loop still delivers once the deadline has passed
ReadsPastDeadline(k) == k = "blocking"

PollIoRequesting(events, r) ==
    IF r.k = "bytes"
    THEN Append(Append(events, Event("read", r.data)), Event("write", <<>>))
    ELSE events

\* what one pass of the loop of _poll_messages does on the transport: the
\* read of read_messages, and no write
PollIo(events, r) ==
    IF r.k = "bytes" THEN Append(events, Event("read", r.data)) ELSE events

\* one read_messages of the loop, the update of requested_messages, the test
PollRead(k) ==
    /\ pc[k] = "poll_read"
    /\ Len(Reads(k)) < MaxReads
    /\ (timed[k] /\ expired[k]) => ReadsPastDeadline(k)
    /\ IF ~IsConnected(k)
       THEN /\ UNCHANGED io
            /\ Done(k, PollCallOf(k), Raise("ConnectionError", "closed"))
       ELSE \E r \in RecvOutcomes(k) :
            LET msgs == ReadMessages(k, r)
                map == IF msgs.k = "list" THEN Collect(got[k], msgs.msgs, 1) ELSE got[k]
            IN  /\ io' = [io EXCEPT ![k] = PollIo(@, r)]
                /\ IF msgs.k = "raise" THEN Done(k, PollCallOf(k), msgs)
                   ELSE IF Missing(map)
                   THEN /\ got' = [got EXCEPT ![k] = map]
                        /\ pc' = [pc EXCEPT ![k] = PollLoop(k)]
                        /\ UNCHANGED <<last, prevRead, attempts, attempt, want, timed,
                                       expired>>
                   ELSE Done(k, PollCallOf(k), RetMap(map))
    /\ UNCHANGED <<run, rejects, host, conn, leaked, sockTimeout, codecVars, netVars>>

\* async: asyncio.wait_for cancels the loop at the deadline and raises TimeoutError
PollTimeout(k) ==
    /\ k = "async"
    /\ pc[k] = "poll_read"
    /\ timed[k]
    /\ expired[k]
    /\ UNCHANGED io
    /\ Done(k, PollCallOf(k), Raise("TimeoutError", "poll"))
    /\ UNCHANGED <<run, rejects, host, conn, leaked, sockTimeout, codecVars, netVars>>

(***************************************************************************)
(* Spec: one session, blocking or async, whose caller connects,            *)
(* disconnects, writes requests and reads raw data in any order.           *)
(***************************************************************************)
InitSession ==
    /\ conn = [k \in Clients |-> "none"]
    /\ leaked = [k \in Clients |-> 0]
    /\ sockTimeout = [k \in Clients |-> FALSE]
    /\ pc = [k \in Clients |-> "idle"]
    /\ attempts = [k \in Clients |-> 0]
    /\ attempt = [k \in Clients |-> 0]
    /\ want = [k \in Clients |-> {}]
    /\ got = [k \in Clients |-> <<>>]
    /\ timed = [k \in Clients |-> FALSE]
    /\ expired = [k \in Clients |-> FALSE]
    /\ io = [k \in Clients |-> <<>>]
    /\ last = [k \in Clients |-> [op |-> "init", ret |-> RetNone]]
    /\ prevRead = [k \in Clients |-> NoPrev]

\* no search and no probe has been started
NoProbe ==
    [pc |-> "idle", sock |-> "none", timeout |-> 1, heard |-> {}, n |-> 0,
     clock |-> 0, ret |-> Pending]

InitNet ==
    /\ search = [pc |-> "idle", max_workers |-> 0, found |-> <<>>, waiting |-> {},
                 ret |-> Pending]
    /\ probes = [h \in ScanHosts |-> NoProbe]

InitCodec ==
    /\ cdata = <<>>
    /\ cout = [op |-> "init", ret |-> RetNone]

Init ==
    /\ run \in {{k} : k \in Clients}
    /\ rejects = {}
    /\ host \in [Clients -> Hosts]
    /\ \A k \in Clients \ run : host[k] = ""
    /\ InitSession
    /\ InitCodec
    /\ InitNet

Next ==
    \E k \in run :
        \/ ConnectCall(k)
        \/ ConnectAttempt(k)
        \/ ConnectReturn(k)
        \/ DisconnectCall(k)
        \/ WriteRequestedCall(k)
        \/ ReadRawCall(k)

Spec == Init /\ [][Next]_vars

(***************************************************************************)
(* SpecLife: one session, blocking or async, whose caller connects and     *)
(* disconnects while the peer may close the transport at any moment.       *)
(***************************************************************************)
NextLife ==
    \E k \in run :
        \/ ConnectCall(k)
        \/ ConnectAttempt(k)
        \/ ConnectReturn(k)
        \/ DisconnectCall(k)
        \/ PeerClose(k)

SpecLife == Init /\ [][NextLife]_vars

(***************************************************************************)
(* SpecRead and SpecPoll: one session, blocking or async, constructed with *)
(* a host, whose caller connects with one attempt and then calls           *)
(* read_messages (SpecRead) or poll_messages (SpecPoll).                   *)
(***************************************************************************)
PollConnectCall(k) == ConnectCallWith(k, {""}, {1}, {FALSE})

InitPoll ==
    /\ run \in {{k} : k \in Clients}
    /\ rejects \in RejectChoices
    /\ host = [k \in Clients |-> IF k \in run THEN "spa" ELSE ""]
    /\ InitSession
    /\ InitCodec
    /\ InitNet

NextRead ==
    \E k \in run :
        \/ PollConnectCall(k)
        \/ ConnectAttempt(k)
        \/ ConnectReturn(k)
        \/ ReadMessagesCall(k)

SpecRead == InitPoll /\ [][NextRead]_vars

NextPoll ==
    \E k \in run :
        \/ PollConnectCall(k)
        \/ ConnectAttempt(k)
        \/ ConnectReturn(k)
        \/ PollCall(k)
        \/ Tick(k)
        \/ PollCheck(k)
        \/ PollRead(k)
        \/ PollTimeout(k)

SpecPoll == InitPoll /\ [][NextPoll]_vars

(***************************************************************************)
(* SpecPair: a blocking and an async session constructed alike; the caller *)
(* makes one call on each.                                                 *)
(***************************************************************************)
Fresh(k) == pc[k] = "idle" /\ last[k].op = "init"

InitPair ==
    /\ run = Clients
    /\ rejects = {}
    /\ \E h \in Hosts : host = [k \in Clients |-> h]
    /\ InitSession
    /\ InitCodec
    /\ InitNet

NextPair ==
    \E k \in run :
        \/ Fresh(k) /\ ConnectCall(k)
        \/ ConnectAttempt(k)
        \/ ConnectReturn(k)
        \/ Fresh(k) /\ DisconnectCall(k)
        \/ Fresh(k) /\ WriteRequestedCall(k)
        \/ Fresh(k) /\ ReadRawCall(k)
        \/ Fresh(k) /\ ReadMessagesCall(k)
        \/ Fresh(k) /\ PollCall(k)

SpecPair == InitPair /\ [][NextPair]_vars

(***************************************************************************)
(* SpecCodec: the protocol object of a client, handed buffers: frames of   *)
(* registered, unregistered and undefined types, whole, cut short at any   *)
(* byte of the payload or inside the header, followed by further bytes,    *)
(* or with a wrong first byte.                                             *)
(***************************************************************************)
MaxPayload == 2

Payload(n) == [i \in 1..n |-> 6 + i]

CodecTypes == {LIVE, COMMAND, FIRMWARE, HEARTBEAT, 11, 65535}

Trailing == <<9>>

\* a frame as decode_one unpacks it ('!xxxxBBBBIIHH'): preamble, checksum,
\* counter, optional, type, length, then the payload
RawFrame(type, counter, payload) ==
    PREAMBLE \o <<0, 0, 0, 0>> \o PackUInt(Wide(counter)) \o <<0, 0, 0, 0>>
    \o U16Bytes(type) \o U16Bytes(Len(payload)) \o payload

CodecLengths(n) == {0, HEADER_SIZE - 1} \cup (HEADER_SIZE..(HEADER_SIZE + n + Len(Trailing)))

Cut(data) == {SubSeq(data, 1, m) : m \in CodecLengths(Len(data) - HEADER_SIZE - Len(Trailing))}

CodecInputs ==
    UNION {Cut(RawFrame(t, 1, Payload(n)) \o Trailing) : t \in CodecTypes, n \in 0..MaxPayload}
    \cup {[RawFrame(LIVE, 1, <<>>) EXCEPT ![1] = 0]}

DecodeOneCall(k) ==
    /\ \E data \in CodecInputs :
        /\ cdata' = data
        /\ cout' = [op |-> "decode_one", ret |-> DecodeOne(k, rejects, data)]
    /\ UNCHANGED <<run, rejects, sessVars, netVars>>

DecodeCall(k) ==
    /\ \E data \in CodecInputs :
        /\ cdata' = data
        /\ cout' = [op |-> "decode", ret |-> Decode(k, rejects, data)]
    /\ UNCHANGED <<run, rejects, sessVars, netVars>>

\* decode_one after a decoder has been stored under MessageType.HEARTBEAT
DecodeOneRegisteredCall(k) ==
    /\ \E data \in CodecInputs :
        /\ cdata' = data
        /\ cout' = [op |-> "decode_one_registered",
                    ret |-> DecodeOneWith(Decoders(k) \cup {HEARTBEAT}, rejects, data)]
    /\ UNCHANGED <<run, rejects, sessVars, netVars>>

\* frames as Packet.serialize seals them, alone and followed by another byte
SealedInputs ==
    {f \o t : f \in {Live1, Live2, Settings1, Heartbeat1}, t \in {<<>>, Trailing}}

\* what replaces the four checksum bytes of a frame
Checksums == {<<0, 0, 0, 0>>, <<255, 255, 255, 255>>, <<1, 2, 3, 4>>}

\* data with header bytes 4..8 replaced
WithChecksum(data, checksum) ==
    SubSeq(data, 1, 4) \o checksum \o SubSeq(data, 9, Len(data))

\* decode_one on a sealed frame and on the frame with other checksum bytes
DecodeOneResealedCall(k) ==
    /\ \E data \in SealedInputs, checksum \in Checksums :
        /\ cdata' = data
        /\ cout' = [op |-> "decode_one_resealed",
                    ret |-> DecodeOne(k, rejects, data),
                    resealed |-> WithChecksum(data, checksum),
                    other |-> DecodeOne(k, rejects, WithChecksum(data, checksum))]
    /\ UNCHANGED <<run, rejects, sessVars, netVars>>

NextCodec ==
    \E k \in run :
        \/ DecodeOneCall(k)
        \/ DecodeCall(k)
        \/ DecodeOneRegisteredCall(k)
        \/ DecodeOneResealedCall(k)

SpecCodec == InitPoll /\ [][NextCodec]_vars

(***************************************************************************)
(* SpecRound: a packet is serialized and the bytes are handed to the       *)
(* protocol object of a client: one packet to decode_one, two packets back *)
(* to back to decode.  Sequence numbers cover both halves of the unsigned  *)
(* 32-bit range.                                                           *)
(***************************************************************************)
RoundTypes == {LIVE, COMMAND, SETTINGS}

RoundSeqs == {<<0, 0>>, <<0, 1>>, <<1, 0>>, <<32767, 65535>>, <<32768, 0>>, <<65535, 65535>>}

RoundInputs ==
    {[type |-> t, seq |-> q, payload |-> Payload(n)] :
        t \in RoundTypes, q \in RoundSeqs, n \in 0..MaxPayload}

PairInputs == {in \in RoundInputs : in.type # COMMAND /\ in.seq \in {<<0, 1>>, <<1, 0>>}}

\* Packet(type, payload) with sequence_number set, serialized
Serialized == [in \in RoundInputs |-> Serialize(in.type, in.seq, in.payload)]

StructError == Raise("struct.error", "pack")

SerializeDecodeOneCall(k) ==
    /\ \E in \in RoundInputs :
        LET s == Serialized[in]
        IN  /\ cdata' = (IF s.ok THEN s.bytes ELSE <<>>)
            /\ cout' = [op |-> "serialize_decode_one", in |-> <<in>>,
                        ret |-> IF s.ok THEN DecodeOne(k, rejects, s.bytes)
                                ELSE StructError]
    /\ UNCHANGED <<run, rejects, sessVars, netVars>>

SerializeDecodeCall(k) ==
    /\ \E a \in PairInputs, b \in PairInputs :
        LET sa == Serialized[a]
            sb == Serialized[b]
        IN  /\ cdata' = (IF sa.ok /\ sb.ok THEN sa.bytes \o sb.bytes ELSE <<>>)
            /\ cout' = [op |-> "serialize_decode", in |-> <<a, b>>,
                        ret |-> IF sa.ok /\ sb.ok
                                THEN Decode(k, rejects, sa.bytes \o sb.bytes)
                                ELSE StructError]
    /\ UNCHANGED <<run, rejects, sessVars, netVars>>

\* every corner of the declared widths of type and sequence number
WidthTypes == {LIVE, 32767, 32768, 65535}

WidthSeqs == {<<0, 0>>, <<32767, 65535>>, <<32768, 0>>, <<65535, 65535>>}

WidthInputs ==
    {[type |-> t, seq |-> q, payload |-> Payload(n)] :
        t \in WidthTypes, q \in WidthSeqs, n \in 0..MaxPayload}

SerializeResult(done) == IF done.ok THEN RetBytes(done.bytes) ELSE StructError

PacketOf(in) == [NewPacket(in.type, in.payload) EXCEPT !.sequence_number = in.seq]

\* one packet object serialized twice in a row
SerializeCall ==
    /\ \E in \in WidthInputs :
        \E first \in {PacketSerialize(PacketOf(in))} :
            \E second \in {PacketSerialize(PacketAfter(PacketOf(in), first))} :
                /\ cdata' = (IF first.ok THEN first.bytes ELSE <<>>)
                /\ cout' = [op |-> "serialize", in |-> <<in>>,
                            ret |-> SerializeResult(first),
                            again |-> SerializeResult(second)]
    /\ UNCHANGED <<run, rejects, sessVars, netVars>>

NextRound ==
    \E k \in run :
        \/ SerializeDecodeOneCall(k)
        \/ SerializeDecodeCall(k)

SpecRound == InitPoll /\ [][NextRound]_vars

\* SpecPacket: packets over the corners of the field widths are serialized
NextPacket == SerializeCall

SpecPacket == InitPoll /\ [][NextPacket]_vars

(***************************************************************************)
(* _validate_command and write_command (blocking client).  A command value *)
(* is a Python object: its class (shape) and its numeric value v.  bool,   *)
(* PumpStatus and SaunaState are subclasses of int.                        *)
(***************************************************************************)
TEMPERATURE_SETPOINT_FAHRENHEIT == "set_temperature_setpoint_fahrenheit"

IntKinds == {TEMPERATURE_SETPOINT_FAHRENHEIT, "set_sauna_time_left"}

PumpKinds ==
    {"set_pump_1", "set_pump_2", "set_pump_3", "set_pump_4", "set_pump_5",
     "set_blower_1", "set_blower_2"}

BoolKinds ==
    {"set_lights", "set_stereo", "set_filter", "set_onzen", "set_ozone",
     "set_exhaust_fan", "set_all_on", "set_fogger", "set_spaboy_boost",
     "set_pack_reset", "set_log_dump", "set_sds", "set_yess"}

SaunaKinds == {"set_sauna_state"}

\* the members of CommandType, each standing for its string value
CommandTypes == IntKinds \cup PumpKinds \cup BoolKinds \cup SaunaKinds

\* an object that is no key of command_type_value_class
UnknownKind == "unknown"

NoClass == "None"

\* command_type_value_class.get(command_type)
ValueClass(command_type) ==
    IF command_type \in IntKinds THEN "int"
    ELSE IF command_type \in PumpKinds THEN "PumpStatus"
    ELSE IF command_type \in BoolKinds THEN "bool"
    ELSE IF command_type \in SaunaKinds THEN "SaunaState"
    ELSE NoClass

MIN_TEMPERATURE == 59
MAX_TEMPERATURE == 104

PumpStatus == {[shape |-> "PumpStatus", v |-> n] : n \in 0..2}

SaunaState == {[shape |-> "SaunaState", v |-> n] : n \in 0..4}

\* False and True, which compare as 0 and 1
Bools == {[shape |-> "bool", v |-> n] : n \in 0..1}

\* how far below MIN_TEMPERATURE and above MAX_TEMPERATURE the integers go
Margin == 2

Ints ==
    {[shape |-> "int", v |-> n] :
        n \in {-1, 0, 1} \cup ((MIN_TEMPERATURE - Margin)..(MAX_TEMPERATURE + Margin))}

CommandValues == Ints \cup Bools \cup PumpStatus \cup SaunaState

\* the classes a value is an instance of
Classes(value) == {value.shape, "int"}

\* isinstance(command_value, value_class)
IsInstance(command_value, value_class) == value_class \in Classes(command_value)

BelowMinimumInclusive(command_value) == command_value.v <= MIN_TEMPERATURE

\* command_value < MIN_TEMPERATURE
BelowMinimum(command_value) == command_value.v < MIN_TEMPERATURE

\* command_value > MAX_TEMPERATURE
AboveMaximum(command_value) == command_value.v > MAX_TEMPERATURE

\* (property_name, raw_value): every value is an int or a bool, so raw_value
\* is the value itself
RetCommand(property_name, raw_value) ==
    [k |-> "command", property_name |-> property_name, raw_value |-> raw_value]

ValidateCommand(command_type, command_value) ==
    LET value_class == ValueClass(command_type)
    IN  IF value_class = NoClass THEN Raise("ValueError", "command type")
        ELSE IF ~IsInstance(command_value, value_class)
        THEN Raise("TypeError", value_class)
        ELSE IF command_type = TEMPERATURE_SETPOINT_FAHRENHEIT
                /\ BelowMinimum(command_value)
        THEN Raise("ValueError", "minimum")
        ELSE IF command_type = TEMPERATURE_SETPOINT_FAHRENHEIT
                /\ AboveMaximum(command_value)
        THEN Raise("ValueError", "maximum")
        ELSE RetCommand(command_type, command_value)

\* command.SerializeToString(): the encoding of one field of a Command
\* message, an opaque byte string that may be empty
CommandPayloads == {Payload(n) : n \in 0..MaxPayload}

\* Packet(MessageType.COMMAND.value, buffer).serialize()
CommandPackets == [buffer \in CommandPayloads |-> Serialize(COMMAND, <<0, 0>>, buffer).bytes]

CommandWritesUnchecked(validated, command_packet_bytes) ==
    <<Event("write", command_packet_bytes)>>

\* what write_command sends: nothing when _validate_command raised
CommandWrites(validated, command_packet_bytes) ==
    IF validated.k = "raise" THEN <<>>
    ELSE <<Event("write", command_packet_bytes)>>

\* SpecCommand: one kind of each value class and one that is no kind; the
\* values around the two temperature limits and every non-integer value
SampleKinds ==
    {TEMPERATURE_SETPOINT_FAHRENHEIT, "set_sauna_time_left", "set_pump_1",
     "set_lights", "set_sauna_state", UnknownKind}

SampleValues ==
    {value \in CommandValues :
        \/ value.shape # "int"
        \/ value.v \in {MIN_TEMPERATURE - 1, MIN_TEMPERATURE,
                        MAX_TEMPERATURE, MAX_TEMPERATURE + 1}}

WriteCommandCall(k) ==
    /\ pc[k] = "idle"
    /\ \E command_type \in SampleKinds,
          command_value \in SampleValues, buffer \in CommandPayloads :
        LET call == [op |-> "write_command", type |-> command_type,
                     value |-> command_value]
            validated == ValidateCommand(command_type, command_value)
        IN  IF ~IsConnected(k)
            THEN /\ io' = [io EXCEPT ![k] = <<>>]
                 /\ Done(k, call, Raise("ConnectionError", "closed"))
            ELSE /\ io' = [io EXCEPT ![k] = CommandWrites(validated, CommandPackets[buffer])]
                 /\ Done(k, call, IF validated.k = "raise" THEN validated ELSE RetNone)
    /\ UNCHANGED <<run, rejects, host, conn, leaked, sockTimeout, codecVars, netVars>>

\* SpecCommand: a blocking session that connects and writes commands
InitCommand ==
    /\ InitPoll
    /\ run = {"blocking"}

NextCommand ==
    \E k \in run :
        \/ PollConnectCall(k)
        \/ ConnectAttempt(k)
        \/ ConnectReturn(k)
        \/ WriteCommandCall(k)

SpecCommand == InitCommand /\ [][NextCommand]_vars

\* SpecValidate: _validate_command on every kind and value
ValidateCommandCall ==
    /\ \E command_type \in CommandTypes \cup {UnknownKind},
          command_value \in CommandValues :
        cout' = [op |-> "_validate_command", type |-> command_type,
                 value |-> command_value,
                 ret |-> ValidateCommand(command_type, command_value)]
    /\ UNCHANGED <<cdata, run, rejects, sessVars, netVars>>

NextValidate == ValidateCommandCall

InitValidate ==
    /\ InitPoll
    /\ run = {"blocking"}
    /\ rejects = {}

SpecValidate == InitValidate /\ [][NextValidate]_vars

(***************************************************************************)
(* Discovery: udp_probe and NetworkSearch.search.  Time is counted in      *)
(* ticks; Timeout is the timeout argument of both.                         *)
(***************************************************************************)
Timeout == 2        \* the timeout of a probe, in ticks
MaxDatagrams == 2   \* datagrams that arrive on the socket of one probe
MaxWorkers == 2     \* search is called with max_workers in 1..MaxWorkers

\* the timeout argument of search and of udp_probe: a number of ticks, or a
\* negative number
Timeouts == {Timeout, 0 - Timeout}

\* b"Response,BlueFalls,"
RESPONSE ==
    <<82, 101, 115, 112, 111, 110, 115, 101, 44,
      66, 108, 117, 101, 70, 97, 108, 108, 115, 44>>

\* data.startswith(response)
StartsWith(data, response) ==
    /\ Len(data) >= Len(response)
    /\ SubSeq(data, 1, Len(response)) = response

\* what arrives on a probe's socket: an answer with a serial number after the
\* prefix, or a datagram cut inside the prefix, from either scanned address
Datagrams ==
    {[addr |-> a, data |-> d] :
        a \in ScanHosts, d \in {RESPONSE \o <<49>>, SubSeq(RESPONSE, 1, 9)}}

MatchesAnySender(host_, datagram) == StartsWith(datagram.data, RESPONSE)

\* addr[0] == host and data.startswith(response)
Matches(host_, datagram) ==
    /\ datagram.addr = host_
    /\ StartsWith(datagram.data, RESPONSE)

\* the probe of h ends: the finally clause closes the socket it has
ProbeEnds(h, heard, n, clock, ret) ==
    probes' = [probes EXCEPT ![h] =
        [pc |-> "done", sock |-> IF @.sock = "open" THEN "closed" ELSE @.sock,
         timeout |-> @.timeout, heard |-> heard, n |-> n, clock |-> clock, ret |-> ret]]

\* sock.settimeout(timeout) accepts None and a non-negative number
TimeoutOk(timeout) == timeout >= 0

\* socket.socket(...) and settimeout, before the try statement: what
\* settimeout raises leaves udp_probe without reaching the finally clause
ProbeSocket(h) ==
    /\ probes[h].pc = "socket"
    /\ \/ /\ TimeoutOk(probes[h].timeout)
          /\ probes' = [probes EXCEPT ![h].pc = "bind", ![h].sock = "open"]
       \/ /\ ~TimeoutOk(probes[h].timeout)
          /\ probes' = [probes EXCEPT ![h].pc = "done", ![h].sock = "open",
                                      ![h].ret = Raise("ValueError", "settimeout")]
       \/ ProbeEnds(h, {}, 0, 0, Raise("OSError", "socket"))
    /\ UNCHANGED <<run, rejects, sessVars, codecVars, search>>

\* sock.bind(('', 0))
ProbeBind(h) ==
    /\ probes[h].pc = "bind"
    /\ \/ probes' = [probes EXCEPT ![h].pc = "send"]
       \/ ProbeEnds(h, {}, 0, 0, Raise("OSError", "bind"))
    /\ UNCHANGED <<run, rejects, sessVars, codecVars, search>>

\* sock.sendto(query, (host, query_port))
ProbeSend(h) ==
    /\ probes[h].pc = "send"
    /\ \/ probes' = [probes EXCEPT ![h].pc = "recv"]
       \/ ProbeEnds(h, {}, 0, 0, Raise("OSError", "sendto"))
    /\ UNCHANGED <<run, rejects, sessVars, codecVars, search>>

\* one sock.recvfrom(1024) of the loop: a datagram arrives `delay` ticks after
\* the call began, or the call raises.  The socket's timeout bounds each call.
ProbeRecvWith(h, delays) ==
    /\ probes[h].pc = "recv"
    /\ LET p == probes[h]
       IN  \/ /\ p.n < MaxDatagrams
              /\ \E datagram \in Datagrams, delay \in delays :
                    IF Matches(h, datagram)
                    THEN ProbeEnds(h, p.heard \cup {datagram}, p.n + 1,
                                   p.clock + delay, RetBool(TRUE))
                    ELSE probes' = [probes EXCEPT
                            ![h].heard = @ \cup {datagram},
                            ![h].n = @ + 1,
                            ![h].clock = @ + delay]
           \/ ProbeEnds(h, p.heard, p.n, p.clock + Timeout, RetBool(FALSE))
           \/ \E delay \in delays :
                ProbeEnds(h, p.heard, p.n, p.clock + delay, RetBool(FALSE))
           \/ \E delay \in delays :
                ProbeEnds(h, p.heard, p.n, p.clock + delay, Raise("OSError", "recvfrom"))
    /\ UNCHANGED <<run, rejects, sessVars, codecVars, search>>

\* udp_probe called on its own
UdpProbeCall(h) ==
    /\ search.pc = "idle"
    /\ probes[h].pc = "idle"
    /\ \E timeout \in Timeouts :
        probes' = [probes EXCEPT ![h].pc = "socket", ![h].timeout = timeout]
    /\ UNCHANGED <<run, rejects, sessVars, codecVars, search>>

\* search: every host is submitted to a pool of max_workers threads
SearchCall ==
    /\ search.pc = "idle"
    /\ \A h \in ScanHosts : probes[h].pc = "idle"
    /\ \E max_workers \in 1..MaxWorkers, timeout \in Timeouts :
        /\ search' = [pc |-> "running", max_workers |-> max_workers,
                      found |-> <<>>, waiting |-> ScanHosts, ret |-> Pending]
        /\ probes' = [h \in ScanHosts |->
                        [NoProbe EXCEPT !.pc = "queued", !.timeout = timeout]]
    /\ UNCHANGED <<run, rejects, sessVars, codecVars>>

Running == {h \in ScanHosts : probes[h].pc \in {"socket", "bind", "send", "recv"}}

\* a free worker thread takes the next submitted probe
ProbeStart(h) ==
    /\ probes[h].pc = "queued"
    /\ Cardinality(Running) < search.max_workers
    /\ probes' = [probes EXCEPT ![h].pc = "socket"]
    /\ UNCHANGED <<run, rejects, sessVars, codecVars, search>>

\* for future in as_completed(futures): future.result() returns the host,
\* returns None, or raises what the probe raised
SearchCollect(h) ==
    /\ search.pc = "running"
    /\ h \in search.waiting
    /\ probes[h].pc = "done"
    /\ search' = [search EXCEPT
            !.waiting = @ \ {h},
            !.found = IF probes[h].ret = RetBool(TRUE) THEN Append(@, h) ELSE @,
            !.pc = IF probes[h].ret.k = "raise" THEN "raising" ELSE @,
            !.ret = IF probes[h].ret.k = "raise" THEN probes[h].ret ELSE @]
    /\ UNCHANGED <<run, rejects, sessVars, codecVars, probes>>

\* the with statement ends once every submitted probe has run
SearchReturn ==
    /\ search.pc = "running"
    /\ search.waiting = {}
    /\ search' = [search EXCEPT !.pc = "returned",
                                !.ret = [k |-> "list", hosts |-> search.found]]
    /\ UNCHANGED <<run, rejects, sessVars, codecVars, probes>>

SearchRaise ==
    /\ search.pc = "raising"
    /\ \A h \in ScanHosts : probes[h].pc = "done"
    /\ search' = [search EXCEPT !.pc = "raised"]
    /\ UNCHANGED <<run, rejects, sessVars, codecVars, probes>>

InitScan ==
    /\ InitPoll
    /\ run = {"blocking"}
    /\ rejects = {}

\* SpecSearch: one search call over the scanned hosts
NextSearch ==
    \/ SearchCall
    \/ SearchReturn
    \/ SearchRaise
    \/ \E h \in ScanHosts :
        \/ ProbeStart(h)
        \/ ProbeSocket(h)
        \/ ProbeBind(h)
        \/ ProbeSend(h)
        \/ ProbeRecvWith(h, {0})
        \/ SearchCollect(h)

SpecSearch == InitScan /\ [][NextSearch]_vars

\* SpecProbe: udp_probe called on its own, with time
NextProbe ==
    \E h \in ScanHosts :
        \/ UdpProbeCall(h)
        \/ ProbeSocket(h)
        \/ ProbeBind(h)
        \/ ProbeSend(h)
        \/ ProbeRecvWith(h, 0..(Timeout - 1))

SpecProbe == InitScan /\ [][NextProbe]_vars

(***************************************************************************)
(* SpecBuffer: one ByteBuffer, allocated and then written, patched,        *)
(* flipped and read; cout holds the last call, the buffer before it and    *)
(* the buffer after it.                                                    *)
(***************************************************************************)
MaxBuffer == 8      \* no put reaches beyond this many bytes

BufferInts == {Wide(10), Wide(42), Wide(-1)}

BufferShorts == {7, 40000}

BufferOffsets == {0, 2, 6}

BufferOps ==
    {"allocate", "put_int", "put_short", "put_int_at", "put_short_at", "flip",
     "get_int", "get_short"}

RetInt(value) == [k |-> "int", v |-> value]

\* a call on the buffer ends: a raised struct.error leaves the buffer usable
BufferStep(op, args, after, ret) ==
    /\ cout' = [op |-> op, args |-> args, before |-> cout.buf,
                buf |-> [after EXCEPT !.ok = TRUE],
                ret |-> IF after.ok THEN ret ELSE StructError]
    /\ UNCHANGED <<cdata, run, rejects, sessVars, netVars>>

AllocateCall ==
    /\ cout' = [op |-> "allocate", args |-> <<>>, before |-> Allocate,
                buf |-> Allocate, ret |-> RetNone]
    /\ UNCHANGED <<cdata, run, rejects, sessVars, netVars>>

PutIntCall ==
    /\ cout.op \in BufferOps
    /\ cout.buf.pos + 4 <= MaxBuffer
    /\ \E value \in BufferInts :
        BufferStep("put_int", <<value>>, PutInt(cout.buf, value), RetNone)

PutShortCall ==
    /\ cout.op \in BufferOps
    /\ cout.buf.pos + 2 <= MaxBuffer
    /\ \E value \in BufferShorts :
        BufferStep("put_short", <<value>>, PutShort(cout.buf, value), RetNone)

PutIntAtCall ==
    /\ cout.op \in BufferOps
    /\ \E index \in BufferOffsets, value \in BufferInts :
        /\ index + 4 <= MaxBuffer
        /\ BufferStep("put_int_at", <<index, value>>,
                      PutIntAt(cout.buf, index, value), RetNone)

PutShortAtCall ==
    /\ cout.op \in BufferOps
    /\ \E index \in BufferOffsets, value \in BufferShorts :
        /\ index + 2 <= MaxBuffer
        /\ BufferStep("put_short_at", <<index, value>>,
                      PutShortAt(cout.buf, index, value), RetNone)

FlipCall ==
    /\ cout.op \in BufferOps
    /\ BufferStep("flip", <<>>, Flip(cout.buf), RetNone)

GetIntCall ==
    /\ cout.op \in BufferOps
    /\ \E unpacked \in {GetInt(cout.buf)} :
        BufferStep("get_int", <<>>, [unpacked.buf EXCEPT !.ok = unpacked.ok],
                   IF unpacked.ok THEN RetInt(unpacked.value) ELSE StructError)

GetShortCall ==
    /\ cout.op \in BufferOps
    /\ \E unpacked \in {GetShort(cout.buf)} :
        BufferStep("get_short", <<>>, [unpacked.buf EXCEPT !.ok = unpacked.ok],
                   IF unpacked.ok THEN RetInt(unpacked.value) ELSE StructError)

NextBuffer ==
    \/ AllocateCall
    \/ PutIntCall
    \/ PutShortCall
    \/ PutIntAtCall
    \/ PutShortAtCall
    \/ FlipCall
    \/ GetIntCall
    \/ GetShortCall

SpecBuffer == InitScan /\ [][NextBuffer]_vars

(***************************************************************************)
(* Properties.                                                             *)
(***************************************************************************)
Idle(k) == pc[k] = "idle"

\* the messages decoded from the first n reads of a call, in order
RECURSIVE Observed(_, _, _)
Observed(k, reads, n) ==
    IF n = 0 THEN <<>>
    ELSE LET d == Decode(k, rejects, reads[n])
         IN  Observed(k, reads, n - 1) \o (IF d.k = "list" THEN d.msgs ELSE <<>>)

\* the non-null messages of one type among msgs, in order
OfType(msgs, t) == SelectSeq(msgs, LAMBDA m : m # NoMessage /\ m.message_type = t)

WholeFrames == {Live1, Live2, Settings1, Heartbeat1}

\* C1: when a frame is split across two consecutive read_messages calls of a
\* session, neither call fails and the two calls together return exactly the
\* messages that decoding the whole frame returns.
C1_SplitFrameReassembled ==
    \A k \in run :
        (/\ Idle(k)
         /\ last[k].op = "read_messages"
         /\ prevRead[k] # NoPrev
         /\ Len(Reads(k)) = 1
         /\ prevRead[k].data # <<>>
         /\ Reads(k)[1] # <<>>
         /\ prevRead[k].data \o Reads(k)[1] \in WholeFrames)
        => /\ prevRead[k].ret.k = "list"
           /\ last[k].ret.k = "list"
           /\ prevRead[k].ret.msgs \o last[k].ret.msgs
                = Decode(k, rejects, prevRead[k].data \o Reads(k)[1]).msgs

\* C2: within one connect call no open attempt follows an attempt that
\* succeeded: only the last attempt of the call can be a success.
C2_SuccessIsLastAttempt ==
    \A k \in run :
        \A i \in 1..(Len(Opens(k)) - 1) : Opens(k)[i] # "ok"

\* C3: when connect has returned a boolean, the boolean is true exactly when
\* is_connected() is true.
C3_ResultIffConnected ==
    \A k \in run :
        (Idle(k) /\ last[k].op = "connect" /\ last[k].ret.k = "bool")
        => (last[k].ret.b <=> IsConnected(k))

\* C4: connect called with attempts = n makes at most n open attempts, every
\* attempt before the last one timed out, and a refused attempt ends the call
\* with false.
C4_AtMostNAttempts ==
    \A k \in run :
        last[k].op = "connect"
        => /\ Len(Opens(k)) <= last[k].attempts
           /\ \A i \in 1..(Len(Opens(k)) - 1) : Opens(k)[i] = "timeout"
           /\ (Len(Opens(k)) > 0 /\ Opens(k)[Len(Opens(k))] = "refused")
                => last[k].ret = RetBool(FALSE)

\* C5: a blocking and an async client constructed alike, given the same call
\* with the same arguments and the same transport events, return the same
\* result or raise the same error and end equally connected.
C5_SameResults ==
    (/\ Idle("blocking")
     /\ Idle("async")
     /\ last["blocking"].op # "init"
     /\ [last["blocking"] EXCEPT !.ret = RetNone] = [last["async"] EXCEPT !.ret = RetNone]
     /\ host["blocking"] = host["async"]
     /\ io["blocking"] = io["async"])
    => /\ last["blocking"].ret = last["async"].ret
       /\ IsConnected("blocking") = IsConnected("async")

\* C6: the map poll_messages returns holds every requested type, and holds
\* for each of its types the last non-null message of that type decoded from
\* the reads of the call (so no entry is null); it may hold further types.
C6_PollReturnsLastOfEachType ==
    \A k \in run :
        (Idle(k) /\ last[k].op = "poll_messages" /\ last[k].ret.k = "map")
        => LET map == last[k].ret.map
               seen == Observed(k, Reads(k), Len(Reads(k)))
           IN  /\ last[k].types \subseteq DOMAIN map
               /\ \A t \in DOMAIN map :
                    /\ Len(OfType(seen, t)) > 0
                    /\ map[t] = OfType(seen, t)[Len(OfType(seen, t))]

\* a poll that returned after decoding a requested type twice and an
\* unrequested type as well
C6_LastSeenAndExtraReturned ==
    \E k \in run :
        /\ Idle(k)
        /\ last[k].op = "poll_messages"
        /\ last[k].ret.k = "map"
        /\ \E t \in last[k].types :
             Len(OfType(Observed(k, Reads(k), Len(Reads(k))), t)) >= 2
        /\ DOMAIN last[k].ret.map # last[k].types

\* C7: once the timeout of a poll has elapsed with a requested type still not
\* observed, the call does not end by returning a map.
C7_NoMapAfterDeadline ==
    [][\A k \in run :
        (/\ pc[k] \in {"poll_check", "poll_read"}
         /\ timed[k]
         /\ expired[k]
         /\ Missing(got[k])
         /\ pc'[k] = "idle")
        => last'[k].ret.k # "map"]_vars

\* C8: in a poll_messages call no read follows a read after which every
\* requested type has been observed: after each read but the last one some
\* requested type is still missing.
C8_StopsWhenAllObserved ==
    \A k \in run :
        last[k].op = "poll_messages"
        => \A n \in 1..(Len(Reads(k)) - 1) :
             \E t \in last[k].types : Len(OfType(Observed(k, Reads(k), n), t)) = 0

\* a poll that needed two reads, the first of which delivered only an
\* unrequested type, and returned
C8_ReturnedAfterSecondRead ==
    \E k \in run :
        /\ Idle(k)
        /\ last[k].op = "poll_messages"
        /\ last[k].ret.k = "map"
        /\ Len(Reads(k)) = 2
        /\ Len(Observed(k, Reads(k), 1)) > 0
        /\ \A t \in last[k].types : Len(OfType(Observed(k, Reads(k), 1), t)) = 0

\* the declared payload length of a buffer that holds a header
DeclaredLength(data) == U16At(data, 19)

HoldsHeader(data) == Len(data) >= HEADER_SIZE /\ Slice(data, 0, 4) = PREAMBLE

\* C9: decode_one on a buffer with a valid header and fewer payload bytes than
\* the header declares raises an error that is neither the short-header nor
\* the bad-preamble error; it returns no message.
C9_TruncatedPayloadSignalled ==
    (/\ cout.op = "decode_one"
     /\ HoldsHeader(cdata)
     /\ Len(cdata) < HEADER_SIZE + DeclaredLength(cdata))
    => /\ cout.ret.k = "raise"
       /\ cout.ret.why \notin {"short", "preamble"}

\* C10: decode_one on a complete frame whose 16-bit type has no registered
\* decoder raises nothing, yields no message and returns as remainder the
\* bytes after the frame.
C10_UnregisteredTypeSkipped ==
    \A k \in run :
        (/\ cout.op = "decode_one"
         /\ HoldsHeader(cdata)
         /\ Len(cdata) >= HEADER_SIZE + DeclaredLength(cdata)
         /\ U16At(cdata, 17) \notin Decoders(k))
        => /\ cout.ret.k = "ok"
           /\ cout.ret.message = NoMessage
           /\ cout.ret.remainder
                = SubSeq(cdata, HEADER_SIZE + DeclaredLength(cdata) + 1, Len(cdata))

\* whether a decoded message carries the fields of a serialized packet
Carries(message, in) ==
    /\ message # NoMessage
    /\ message.message_type = in.type
    /\ message.counter = in.seq
    /\ message.payload = in.payload

\* C11: for every type with a registered decoder, every unsigned 32-bit
\* sequence number and every payload the parser accepts, decode_one of the
\* serialized packet yields a message with that type, counter and payload
\* and an empty remainder.
C11_RoundTrip ==
    \A k \in run :
        (/\ cout.op = "serialize_decode_one"
         /\ cout.in[1].type \in Decoders(k)
         /\ cout.in[1].payload \notin rejects)
        => /\ cout.ret.k = "ok"
           /\ Carries(cout.ret.message, cout.in[1])
           /\ cout.ret.remainder = <<>>

\* C12: decode of two serialized packets written back to back (types with a
\* decoder, payloads the parser accepts) returns exactly two messages: the
\* first packet's, then the second packet's.
C12_ConcatenationInWireOrder ==
    \A k \in run :
        (/\ cout.op = "serialize_decode"
         /\ \A i \in 1..2 : /\ cout.in[i].type \in Decoders(k)
                            /\ cout.in[i].payload \notin rejects)
        => /\ cout.ret.k = "list"
           /\ Len(cout.ret.msgs) = 2
           /\ Carries(cout.ret.msgs[1], cout.in[1])
           /\ Carries(cout.ret.msgs[2], cout.in[2])

\* two different packets with payloads were decoded back to back
C12_TwoDifferentFramesDecoded ==
    /\ cout.op = "serialize_decode"
    /\ cout.ret.k = "list"
    /\ Len(cout.ret.msgs) = 2
    /\ cout.in[1].type # cout.in[2].type
    /\ cout.in[1].seq # cout.in[2].seq
    /\ Len(cout.in[1].payload) > 0
    /\ Len(cout.in[2].payload) > Len(cout.in[1].payload)

\* C13: the sequence read_messages returns holds only decoded messages: no
\* element stands for a skipped frame (heartbeat, type without decoder).
C13_OnlyDecodedMessagesReturned ==
    \A k \in run :
        (Idle(k) /\ last[k].op = "read_messages" /\ last[k].ret.k = "list")
        => \A i \in 1..Len(last[k].ret.msgs) : last[k].ret.msgs[i] # NoMessage

\* whether some frame of the data, walking from frame to frame by the declared
\* lengths, is shorter than a header or starts with a wrong preamble
RECURSIVE Malformed(_)
Malformed(data) ==
    IF Len(data) = 0 THEN FALSE
    ELSE IF ~HoldsHeader(data) THEN TRUE
    ELSE Malformed(SubSeq(data, HEADER_SIZE + DeclaredLength(data) + 1, Len(data)))

\* C14: decode_one raises DecodeError on data shorter than 20 bytes and on
\* data whose first 4 bytes are not the preamble; decode of data holding a
\* malformed frame anywhere raises and returns no list of messages.
C14_MalformedFrameFailsDecode ==
    /\ (cout.op = "decode_one" /\ Len(cdata) < HEADER_SIZE)
        => cout.ret = Raise("DecodeError", "short")
    /\ (cout.op = "decode_one" /\ Len(cdata) >= HEADER_SIZE
            /\ SubSeq(cdata, 1, 4) # PREAMBLE)
        => cout.ret = Raise("DecodeError", "preamble")
    /\ (cout.op = "decode" /\ Malformed(cdata)) => cout.ret.k = "raise"

\* decode raised DecodeError on data whose first frame decodes to a message
\* and is followed by a malformed frame
C14_FailedAfterValidFrame ==
    \E k \in run :
        /\ cout.op = "decode"
        /\ cout.ret = Raise("DecodeError", "short")
        /\ DecodeOne(k, rejects, cdata).k = "ok"
        /\ DecodeOne(k, rejects, cdata).message # NoMessage
        /\ Len(DecodeOne(k, rejects, cdata).remainder) > 0

SessionOps ==
    {"write_requested_messages", "read_raw_stream_data", "read_messages",
     "poll_messages", "write_command"}

\* C15: an operation that needs an open session, called while is_connected()
\* is false, raises ConnectionError and performs no read or write.
C15_DisconnectedCallsFail ==
    \A k \in run :
        (Idle(k) /\ last[k].op \in SessionOps /\ ~IsConnected(k))
        => /\ last[k].ret = Raise("ConnectionError", "closed")
           /\ io[k] = <<>>

\* C16: is_connected() is true exactly when the transport of the session is
\* open.
C16_ConnectedIffTransportOpen ==
    \A k \in run : IsConnected(k) <=> conn[k] = "open"

\* C17: when disconnect has ended it has raised nothing and the session holds
\* no connection.
C17_DisconnectNeverRaises ==
    \A k \in run :
        (Idle(k) /\ last[k].op = "disconnect")
        => /\ last[k].ret = RetNone
           /\ conn[k] = "none"
           /\ ~IsConnected(k)

\* C18: write_command on a connected session validates first: when
\* validation fails the call raises that error, writes nothing and the session
\* stays connected; when it succeeds the call writes exactly one frame, of
\* type COMMAND, and reads nothing.
C18_ValidatedBeforeWritten ==
    [][\A k \in run :
        (/\ pc[k] = "idle" /\ pc'[k] = "idle"
         /\ last'[k].op = "write_command"
         /\ IsConnected(k))
        => LET validated == ValidateCommand(last'[k].type, last'[k].value)
           IN  IF validated.k = "raise"
               THEN /\ last'[k].ret = validated
                    /\ io'[k] = <<>>
                    /\ IsConnected(k)'
               ELSE /\ last'[k].ret = RetNone
                    /\ Len(io'[k]) = 1
                    /\ io'[k][1].e = "write"
                    /\ HoldsHeader(io'[k][1].what)
                    /\ U16At(io'[k][1].what, 17) = COMMAND
                    /\ Len(io'[k][1].what) = HEADER_SIZE + DeclaredLength(io'[k][1].what)]_vars

\* a connected session refused a command of the wrong shape and wrote nothing
C18_RejectedWhileConnected ==
    \E k \in run :
        /\ Idle(k)
        /\ IsConnected(k)
        /\ last[k].op = "write_command"
        /\ last[k].ret.k = "raise"
        /\ last[k].ret.err = "TypeError"
        /\ io[k] = <<>>

\* the one shape accepted for a kind
AcceptedShape(kind) ==
    IF kind \in IntKinds THEN "int"
    ELSE IF kind \in PumpKinds THEN "PumpStatus"
    ELSE IF kind \in BoolKinds THEN "bool"
    ELSE "SaunaState"

\* C19: for every command kind, a value of another shape than the one
\* accepted for the kind is rejected with TypeError, and a value of the
\* accepted shape is not.
C19_WrongShapeIsTypeError ==
    (cout.op = "_validate_command" /\ cout.type \in CommandTypes)
    => IF cout.value.shape # AcceptedShape(cout.type)
       THEN cout.ret.k = "raise" /\ cout.ret.err = "TypeError"
       ELSE ~(cout.ret.k = "raise" /\ cout.ret.err = "TypeError")

\* C20: an integer temperature setpoint is accepted if and only if it is
\* between 59 and 104, and is refused with ValueError otherwise.
C20_SetpointRange ==
    (/\ cout.op = "_validate_command"
     /\ cout.type = TEMPERATURE_SETPOINT_FAHRENHEIT
     /\ cout.value.shape = "int")
    => IF 59 <= cout.value.v /\ cout.value.v <= 104
       THEN cout.ret.k = "command"
       ELSE cout.ret.k = "raise" /\ cout.ret.err = "ValueError"

\* the lowest accepted setpoint was validated
C20_LowestSetpointAccepted ==
    /\ cout.op = "_validate_command"
    /\ cout.type = TEMPERATURE_SETPOINT_FAHRENHEIT
    /\ cout.value = [shape |-> "int", v |-> 59]
    /\ cout.ret.k = "command"

\* the distinct types a caller asked for
Requested(arg) ==
    IF arg.shape = "one" THEN {arg.item}
    ELSE IF arg.shape = "list" THEN {arg.items[i] : i \in DOMAIN arg.items}
    ELSE arg.items

\* the number of whole 20-byte stretches of data
Stretches(data) == Len(data) \div HEADER_SIZE

\* C21: write_requested_messages on a connected session performs one write,
\* of one frame per distinct requested type and no other byte: each frame has
\* payload length 0 and the id of its type, and no type has two frames.
C21_OneFramePerDistinctType ==
    \A k \in run :
        (/\ Idle(k)
         /\ last[k].op = "write_requested_messages"
         /\ last[k].ret = RetNone)
        => /\ Len(io[k]) = 1
           /\ io[k][1].e = "write"
           /\ LET data == io[k][1].what
                  frame(i) == Slice(data, HEADER_SIZE * (i - 1), HEADER_SIZE * i)
              IN  /\ Len(data) = HEADER_SIZE * Cardinality(Requested(last[k].arg))
                  /\ \A i \in 1..Stretches(data) :
                        /\ HoldsHeader(frame(i))
                        /\ DeclaredLength(frame(i)) = 0
                  /\ {U16At(frame(i), 17) : i \in 1..Stretches(data)}
                        = Requested(last[k].arg)

\* a list that names a type twice was requested and written
C21_DuplicatesRequested ==
    \E k \in run :
        /\ Idle(k)
        /\ last[k].op = "write_requested_messages"
        /\ last[k].ret = RetNone
        /\ last[k].arg.shape = "list"
        /\ Len(last[k].arg.items) > Cardinality(Requested(last[k].arg))
        /\ Len(io[k]) = 1

\* the hosts whose probe got, on its own socket, a datagram sent from the
\* host's address that starts with the response prefix
Answered ==
    {h \in ScanHosts :
        \E datagram \in probes[h].heard :
            datagram.addr = h /\ StartsWith(datagram.data, RESPONSE)}

\* C22: the list search returns holds exactly the hosts that answered their
\* own probe, each once, whatever max_workers is.
C22_FoundExactlyAnswered ==
    search.pc = "returned"
    => /\ search.ret.k = "list"
       /\ {search.ret.hosts[i] : i \in DOMAIN search.ret.hosts} = Answered
       /\ Len(search.ret.hosts) = Cardinality(Answered)

\* search returned one host while the probe of the other host had got the
\* answer that came from the first host's address
C22_ForeignAnswerIgnored ==
    /\ search.pc = "returned"
    /\ Len(search.ret.hosts) = 1
    /\ \E h \in ScanHosts \ Answered :
        \E datagram \in probes[h].heard :
            datagram.addr # h /\ StartsWith(datagram.data, RESPONSE)

\* C23: a probe that raises is a failed probe of its host only: search does
\* not raise.
C23_ProbeErrorContained ==
    ~(search.pc \in {"raising", "raised"})

\* C24: a probe that has not returned has run for less than its timeout, and
\* a probe that has returned did so within its timeout.
C24_ProbeWithinTimeout ==
    \A h \in ScanHosts :
        /\ probes[h].pc = "recv" => probes[h].clock < Timeout
        /\ probes[h].pc = "done" => probes[h].clock <= Timeout

\* C26: decode_one on a heartbeat frame returns no message, with or without
\* a decoder registered for the type, and when the whole frame is in the
\* data the remainder is what follows its 20 + payloadLength bytes.
C26_HeartbeatNeverYields ==
    (/\ cout.op \in {"decode_one", "decode_one_registered"}
     /\ HoldsHeader(cdata)
     /\ U16At(cdata, 17) = HEARTBEAT)
    => /\ cout.ret.k = "ok"
       /\ cout.ret.message = NoMessage
       /\ Len(cdata) >= HEADER_SIZE + DeclaredLength(cdata)
          => cout.ret.remainder
                = SubSeq(cdata, HEADER_SIZE + DeclaredLength(cdata) + 1, Len(cdata))

\* a whole heartbeat frame with a payload, followed by another byte, was
\* decoded while a decoder was registered for heartbeats
C26_RegisteredHeartbeatSkipped ==
    /\ cout.op = "decode_one_registered"
    /\ HoldsHeader(cdata)
    /\ U16At(cdata, 17) = HEARTBEAT
    /\ DeclaredLength(cdata) > 0
    /\ cout.ret.k = "ok"
    /\ cout.ret.remainder = Trailing

\* data with the checksum field, header bytes 4..8, set to zero
ChecksumZeroed(data) == [i \in 1..Len(data) |-> IF i \in 5..8 THEN 0 ELSE data[i]]

\* C25: the bytes serialize returns are 20 header bytes followed by the
\* payload; header bytes 4..8 are the big-endian CRC-32 of these bytes with
\* the field set to zero; serializing the packet again returns the same bytes.
C25_ChecksumOverZeroedField ==
    (cout.op = "serialize" /\ cout.ret.k = "bytes")
    => LET data == cout.ret.data
           payload == cout.in[1].payload
       IN  /\ Len(data) = HEADER_SIZE + Len(payload)
           /\ SubSeq(data, HEADER_SIZE + 1, Len(data)) = payload
           /\ U32At(data, 5) = Crc32(ChecksumZeroed(data))
           /\ cout.again = cout.ret

\* a packet with a payload was serialized and its checksum field is not zero
C25_SerializedWithPayload ==
    /\ cout.op = "serialize"
    /\ cout.ret.k = "bytes"
    /\ Len(cout.in[1].payload) = MaxPayload
    /\ U32At(cout.ret.data, 5) # <<0, 0>>

\* C30: serialize succeeds for every type in 0..65535 and every sequence
\* number in 0..2^32-1, and the header holds the type, the sequence number
\* and the length of the payload.
C30_DeclaredWidthsSerialized ==
    cout.op = "serialize"
    => /\ cout.ret.k = "bytes"
       /\ U16At(cout.ret.data, 17) = cout.in[1].type
       /\ U32At(cout.ret.data, 9) = cout.in[1].seq
       /\ U16At(cout.ret.data, 19) = Len(cout.in[1].payload)

\* the bytes of before outside the n bytes at offset index are those of after
SameOutside(before, after, index, n) ==
    \A i \in 1..Len(before) :
        i \notin (index + 1)..(index + n) => after[i] = before[i]

C28_WriteBeforeReads ==
    \A k \in run :
        (last[k].op = "poll_messages" /\ io[k] # <<>>)
        => /\ io[k][1].e = "write"
           /\ Len(io[k][1].what) = HEADER_SIZE * Cardinality(last[k].types)
           /\ \A i \in 2..Len(io[k]) : io[k][i].e = "read"
           /\ (Idle(k) /\ last[k].ret.k = "map") => Len(io[k]) >= 2

\* a poll_messages call returned after its write and two reads
C28_WriteThenTwoReads ==
    \E k \in run :
        /\ Idle(k)
        /\ last[k].op = "poll_messages"
        /\ last[k].ret.k = "map"
        /\ last[k].types # {}
        /\ Len(io[k]) = 3

\* C29: every transport a session has opened is its current connection or
\* has been closed, so that at most one is open.
C29_NoTransportLeftOpen ==
    \A k \in run : leaked[k] = 0

\* C31: once search has returned or raised, no probe is queued or running
\* and no probe has left its socket open.
C31_PoolAndSocketsTornDown ==
    search.pc \in {"returned", "raised"}
    => \A h \in ScanHosts :
        /\ probes[h].pc = "done"
        /\ probes[h].sock # "open"

\* the type, counter and payload of the message of a decode_one result
Decoded(ret) ==
    IF ret.message = NoMessage THEN NoMessage
    ELSE [message_type |-> ret.message.message_type,
          counter |-> ret.message.counter,
          payload |-> ret.message.payload]

\* C32: decode_one does not look at the checksum bytes: a frame and the same
\* frame with other bytes 4..8 end alike, and when they are accepted the
\* messages have the same type, counter and payload and the remainders are
\* equal; a sealed frame whose payload parses is accepted.
C32_ChecksumNotChecked ==
    cout.op = "decode_one_resealed"
    => /\ cout.ret.k = cout.other.k
       /\ cout.ret.k = "raise" => cout.other = cout.ret
       /\ cout.ret.k = "raise" => cout.ret.err = "protobuf.DecodeError"
       /\ cout.ret.k = "ok"
          => /\ Decoded(cout.other) = Decoded(cout.ret)
             /\ cout.other.remainder = cout.ret.remainder

\* a sealed frame and the frame with a checksum that is not its CRC were
\* both decoded to a message
C32_BadChecksumAccepted ==
    /\ cout.op = "decode_one_resealed"
    /\ cout.resealed # cdata
    /\ U32At(cdata, 5) = Crc32(ChecksumZeroed(cdata))
    /\ cout.other.k = "ok"
    /\ cout.other.message # NoMessage
    /\ cout.other.message.checksum # cout.ret.message.checksum

\* C33: a poll_messages call that returns its map has read at least once;
\* called with no types it has written an empty request and read once, and
\* the map holds the last message of each type decoded from that read.
C33_ReadsOnceBeforeReturn ==
    \A k \in run :
        (Idle(k) /\ last[k].op = "poll_messages" /\ last[k].ret.k = "map")
        => /\ Len(Reads(k)) >= 1
           /\ last[k].types = {}
              => /\ io[k][1] = Event("write", <<>>)
                 /\ Len(io[k]) = 2
                 /\ Len(Reads(k)) = 1
                 /\ LET d == Decode(k, rejects, Reads(k)[1])
                    IN  /\ d.k = "list"
                        /\ last[k].ret.map = Collect(<<>>, d.msgs, 1)

\* a poll_messages call with no types returned a message of its one read
C33_EmptyPollReturnedMessage ==
    \E k \in run :
        /\ Idle(k)
        /\ last[k].op = "poll_messages"
        /\ last[k].types = {}
        /\ last[k].ret.k = "map"
        /\ Len(Reads(k)) = 1
        /\ DOMAIN last[k].ret.map # {}

====
